---- MODULE Spec2Model ----
(***************************************************************************)
(* The aiohttp load balancer of src/balancer.py as a state machine.        *)
(*                                                                         *)
(* One asyncio event loop runs every task, so the code between two awaits  *)
(* of a coroutine is one atomic step.  The suspension points of proxy()    *)
(* are request.read() (line 82), sess.request() and resp.read() (lines 85  *)
(* and 87, no shared state is touched between them: one step here) and the *)
(* exits of the two "async with" blocks that the "return out" of line 99   *)
(* leaves; those of the health loop are the probes gathered at line 28 and *)
(* the sleep of line 29.                                                   *)
(***************************************************************************)
EXTENDS Integers, Sequences, FiniteSets, TLC

\* ------------------------------------------------------------- bounds
MaxReqs == 2          \* proxied requests in one run
MaxPicks == 6         \* consecutive round-robin selections counted
MaxStartIndex == 4    \* cursor values the counted selections start from
MaxHeaders == 2       \* header lines of one message
MaxCtlReqs == 1       \* proxied requests in a run that also calls /health and /metrics

\* ------------------------------------------------------------- config
NONE == "None"                       \* Python's None
BACKENDS == <<"s1", "s2">>           \* names of BACKENDS, in list order
Names == {BACKENDS[i] : i \in 1..Len(BACKENDS)}
Reqs == 1..MaxReqs
CookieVals == {NONE, "s1", "s2"}   \* request.cookies.get(STICKY_COOKIE): absent, or naming a backend
UpstreamStatus == {200, 404, 500}        \* resp.status of a complete response
ProbeOutcomes == {"200", "non200", "connerr", "timeout"}

VARIABLES
    healthy, active, ok, fail,   \* BACKENDS[i]["healthy"|"active"|"ok"|"fail"], by name
    ROUND_ROBIN_INDEX,           \* the global cursor
    STICKY_COOKIE,               \* "LB_NODE", or NONE when stickiness is disabled
    pc,                          \* per request: position of its proxy() coroutine
    cookie_choice,               \* per request: the cookie it presented
    backend,                     \* per request: the backend chosen (NONE: none)
    calls,                       \* per request: upstream requests sent for it
    status,                      \* per request: status of the response (0: none yet)
    set_cookie,                  \* per request: value of the Set-Cookie of the response
    hpc,                         \* position of health_loop
    probe,                       \* per backend: its check_backend of this cycle
    picks, ncalls,               \* pick_backend_rr alone: selections per backend, calls made
    hdr_pc,                      \* headers alone: position in one proxied exchange
    in_headers,                  \* request.headers.items(), in order
    fwd_headers,                 \* the dict "headers" passed to sess.request
    up_headers,                  \* resp.headers.items(), in order
    out_headers,                 \* out.headers.items(), in order
    ctl                          \* the /health or /metrics response produced by this step

vars == <<healthy, active, ok, fail, ROUND_ROBIN_INDEX, STICKY_COOKIE, pc,
          cookie_choice, backend, calls, status, set_cookie, hpc, probe,
          picks, ncalls, hdr_pc, in_headers, fwd_headers, up_headers, out_headers,
          ctl>>

backendVars == <<healthy, active, ok, fail>>
reqVars == <<pc, cookie_choice, backend, calls, status, set_cookie>>
healthVars == <<hpc, probe>>
rrVars == <<picks, ncalls>>
hdrVars == <<hdr_pc, in_headers, fwd_headers, up_headers, out_headers>>
auxVars == <<rrVars, hdrVars>>

\* no control endpoint answers in this step
NoCtl == [path |-> NONE, body |-> NONE]

\* ------------------------------------------------------------- selection
\* the list comprehension without its "if": every backend is eligible
HealthyList_all(h) == BACKENDS

\* healthy = [b for b in BACKENDS if b["healthy"]]
HealthyList(h) == SelectSeq(BACKENDS, LAMBDA b : h[b])

\* pick_backend_rr without the "if not healthy" test: every backend is eligible
\* when none is healthy
pick_backend_rr_any(h, idx) ==
    LET hl == IF Len(HealthyList(h)) = 0 THEN BACKENDS ELSE HealthyList(h) IN
    [b |-> hl[(idx % Len(hl)) + 1], idx |-> idx + 1]

\* pick_backend_rr that forgets "ROUND_ROBIN_INDEX += 1"
pick_backend_rr_stuck(h, idx) ==
    LET hl == HealthyList(h) IN
    IF Len(hl) = 0
    THEN [b |-> NONE, idx |-> idx]
    ELSE [b |-> hl[(idx % Len(hl)) + 1], idx |-> idx]

\* pick_backend_rr that keeps the cursor reduced modulo the healthy count
pick_backend_rr_wrap(h, idx) ==
    LET hl == HealthyList(h) IN
    IF Len(hl) = 0
    THEN [b |-> NONE, idx |-> idx]
    ELSE [b |-> hl[(idx % Len(hl)) + 1], idx |-> (idx + 1) % Len(hl)]

\* pick_backend_rr: the backend returned and the cursor it leaves
pick_backend_rr(h, idx) ==
    LET hl == HealthyList(h) IN
    IF Len(hl) = 0
    THEN [b |-> NONE, idx |-> idx]
    ELSE [b |-> hl[(idx % Len(hl)) + 1], idx |-> idx + 1]

\* pick_backend_sticky that never honours the cookie
pick_backend_sticky_rr(h, idx, cookie_val) == pick_backend_rr(h, idx)

\* pick_backend_sticky
pick_backend_sticky(h, idx, cookie_val) ==
    LET hl == HealthyList(h) IN
    IF Len(hl) = 0
    THEN [b |-> NONE, idx |-> idx]
    ELSE IF cookie_val # NONE /\ \E i \in 1..Len(hl) : hl[i] = cookie_val
         THEN [b |-> cookie_val, idx |-> idx]
         ELSE pick_backend_rr(h, idx)

\* line 66: backend = pick_backend_sticky(cookie_choice) if STICKY_COOKIE else pick_backend_rr()
Select(sticky, h, idx, cookie_val) ==
    IF sticky # NONE THEN pick_backend_sticky(h, idx, cookie_val)
                     ELSE pick_backend_rr(h, idx)

\* line 65: cookie_choice = request.cookies.get(STICKY_COOKIE) if STICKY_COOKIE else None
ReadCookie(sticky, sent) == IF sticky # NONE THEN sent ELSE NONE

\* lines 94-95 with the cookie re-issued only to clients that sent none
StickyCookieOut_first(sticky, choice, name) ==
    IF sticky # NONE /\ choice = NONE THEN name ELSE NONE

\* lines 94-95: the cookie set on a relayed response
StickyCookieOut(sticky, choice, name) ==
    IF sticky # NONE /\ choice # name THEN name ELSE NONE

\* ------------------------------------------------------------- counters
Incr(f, b) == [f EXCEPT ![b] = @ + 1]
Decr(f, b) == [f EXCEPT ![b] = @ - 1]

OnExcept_ok(failc, b) == failc      \* the except branch forgets the counter
OnSuccess_skip(okc, b) == okc       \* the success path forgets the counter
OnFinally_leak(act, b) == act       \* no finally: the count is never given back

\* line 70
OnDispatch(act, b) == Incr(act, b)
\* line 90
OnSuccess(okc, b) == Incr(okc, b)
\* line 101
OnExcept(failc, b) == Incr(failc, b)
\* line 104
OnFinally(act, b) == Decr(act, b)

\* ------------------------------------------------------------- proxy()
Init ==
    /\ healthy = [b \in Names |-> TRUE]
    /\ active = [b \in Names |-> 0]
    /\ ok = [b \in Names |-> 0]
    /\ fail = [b \in Names |-> 0]
    /\ ROUND_ROBIN_INDEX = 0
    /\ STICKY_COOKIE \in {"LB_NODE", NONE}     \* line 13: "set to None to disable stickiness"
    /\ pc = [r \in Reqs |-> "idle"]
    /\ cookie_choice = [r \in Reqs |-> NONE]
    /\ backend = [r \in Reqs |-> NONE]
    /\ calls = [r \in Reqs |-> 0]
    /\ status = [r \in Reqs |-> 0]
    /\ set_cookie = [r \in Reqs |-> NONE]
    /\ hpc = "start"
    /\ probe = [b \in Names |-> "idle"]
    /\ picks = [b \in Names |-> 0]
    /\ ncalls = 0
    /\ hdr_pc = "idle"
    /\ in_headers = <<>>
    /\ fwd_headers = <<>>
    /\ up_headers = <<>>
    /\ out_headers = <<>>
    /\ ctl = NoCtl

\* lines 62-82: a request arrives, a backend is chosen, the request is
\* dispatched (or answered 503) up to the first await.
ProxySelect(r) ==
    /\ pc[r] = "idle"
    /\ IF r = 1 THEN TRUE ELSE pc[r - 1] # "idle"   \* requests are numbered in arrival order
    /\ \E sent \in CookieVals :
        LET c == ReadCookie(STICKY_COOKIE, sent)
            sel == Select(STICKY_COOKIE, healthy, ROUND_ROBIN_INDEX, c)
        IN /\ ROUND_ROBIN_INDEX' = sel.idx
           /\ backend' = [backend EXCEPT ![r] = sel.b]
           /\ IF sel.b = NONE
              THEN /\ status' = [status EXCEPT ![r] = 503]
                   /\ pc' = [pc EXCEPT ![r] = "done"]
                   /\ UNCHANGED <<active, cookie_choice>>
              ELSE /\ active' = OnDispatch(active, sel.b)
                   /\ cookie_choice' = [cookie_choice EXCEPT ![r] = c]
                   /\ pc' = [pc EXCEPT ![r] = "read_body"]
                   /\ UNCHANGED status
    /\ UNCHANGED <<healthy, ok, fail, STICKY_COOKIE, calls, set_cookie, healthVars, auxVars>>
    /\ ctl' = NoCtl

\* line 82 completes; lines 84-85 send the one upstream request
SendUpstream(r) ==
    /\ pc[r] = "read_body"
    /\ pc' = [pc EXCEPT ![r] = "upstream"]
    /\ calls' = [calls EXCEPT ![r] = @ + 1]
    /\ UNCHANGED <<backendVars, ROUND_ROBIN_INDEX, STICKY_COOKIE, cookie_choice,
                   backend, status, set_cookie, healthVars, auxVars>>
    /\ ctl' = NoCtl

\* lines 85-99: the upstream answered with status st and its payload was read;
\* the outcome is recorded and the response built.  "return out" then awaits
\* the exits of the two async-with blocks.
Relay(r) ==
    /\ pc[r] = "upstream"
    /\ \E st \in UpstreamStatus :
        /\ status' = [status EXCEPT ![r] = st]
    /\ ok' = OnSuccess(ok, backend[r])
    /\ set_cookie' = [set_cookie EXCEPT ![r] =
                        StickyCookieOut(STICKY_COOKIE, cookie_choice[r], backend[r])]
    /\ pc' = [pc EXCEPT ![r] = "closing"]
    /\ UNCHANGED <<healthy, active, fail, ROUND_ROBIN_INDEX, STICKY_COOKIE,
                   cookie_choice, backend, calls, healthVars, auxVars>>
    /\ ctl' = NoCtl

\* line 104 on the success path: finally, then the response is returned and
\* the locals of the coroutine are gone
Return(r) ==
    /\ pc[r] = "closing"
    /\ active' = OnFinally(active, backend[r])
    /\ pc' = [pc EXCEPT ![r] = "done"]
    /\ cookie_choice' = [cookie_choice EXCEPT ![r] = NONE]
    /\ UNCHANGED <<healthy, ok, fail, ROUND_ROBIN_INDEX, STICKY_COOKIE,
                   backend, calls, status, set_cookie, healthVars, auxVars>>
    /\ ctl' = NoCtl

\* no except clause: the exception leaves proxy() through the finally alone and
\* the handler produces no response
Except_reraise(r) ==
    /\ active' = OnFinally(active, backend[r])
    /\ pc' = [pc EXCEPT ![r] = "done"]
    /\ cookie_choice' = [cookie_choice EXCEPT ![r] = NONE]
    /\ UNCHANGED <<healthy, ok, fail, ROUND_ROBIN_INDEX, STICKY_COOKIE,
                   backend, calls, status, set_cookie, healthVars, auxVars>>
    /\ ctl' = NoCtl

\* an except branch that also takes the failing backend out of rotation
Except_marks_down(r) ==
    /\ fail' = OnExcept(fail, backend[r])
    /\ healthy' = [healthy EXCEPT ![backend[r]] = FALSE]
    /\ status' = [status EXCEPT ![r] = 502]
    /\ active' = OnFinally(active, backend[r])
    /\ pc' = [pc EXCEPT ![r] = "done"]
    /\ cookie_choice' = [cookie_choice EXCEPT ![r] = NONE]
    /\ UNCHANGED <<ok, ROUND_ROBIN_INDEX, STICKY_COOKIE,
                   backend, calls, set_cookie, healthVars, auxVars>>
    /\ ctl' = NoCtl

\* lines 100-104: an await inside the try block raised an Exception
Except(r) ==
    /\ fail' = OnExcept(fail, backend[r])
    /\ status' = [status EXCEPT ![r] = 502]
    /\ active' = OnFinally(active, backend[r])
    /\ pc' = [pc EXCEPT ![r] = "done"]
    /\ cookie_choice' = [cookie_choice EXCEPT ![r] = NONE]
    /\ UNCHANGED <<healthy, ok, ROUND_ROBIN_INDEX, STICKY_COOKIE,
                   backend, calls, set_cookie, healthVars, auxVars>>
    /\ ctl' = NoCtl

\* line 82: request.read() raised (the client aborted the body, or the body
\* is larger than the server accepts)
BodyFails(r) ==
    /\ pc[r] = "read_body"
    /\ Except(r)

\* lines 85, 87: sess.request() or resp.read() raised: timeout or connection
\* failure
UpstreamFails(r) ==
    /\ pc[r] = "upstream"
    /\ Except(r)

\* ------------------------------------------------------------- health_loop
\* check_backend that leaves a timed-out backend in rotation
check_backend_lenient(outcome) == outcome \in {"200", "timeout"}

\* check_backend that accepts every response, whatever its status
check_backend_any_status(outcome) == outcome \in {"200", "non200"}

\* check_backend, line 34 and line 36: the flag a finished probe writes
check_backend(outcome) == (outcome = "200")

\* lines 26-28: one probe per backend is started
StartCycle ==
    /\ hpc \in {"start", "sleep"}
    /\ hpc' = "gather"
    /\ probe' = [b \in Names |-> "pending"]
    /\ UNCHANGED <<backendVars, ROUND_ROBIN_INDEX, STICKY_COOKIE, reqVars, auxVars>>
    /\ ctl' = NoCtl

\* check_backend without its try/except: a connection failure or a timeout
\* leaves the flag alone and ends the loop through gather
ProbeDone_raises(b) ==
    /\ hpc = "gather"
    /\ probe[b] = "pending"
    /\ \E o \in ProbeOutcomes :
        /\ probe' = [probe EXCEPT ![b] = o]
        /\ IF o \in {"connerr", "timeout"}
           THEN healthy' = healthy /\ hpc' = "dead"
           ELSE healthy' = [healthy EXCEPT ![b] = check_backend(o)] /\ hpc' = hpc
    /\ UNCHANGED <<active, ok, fail, ROUND_ROBIN_INDEX, STICKY_COOKIE, reqVars, auxVars>>
    /\ ctl' = NoCtl

\* a probe that finishes only while no proxied request is in flight
ProbeDone_waits(b) ==
    /\ hpc = "gather"
    /\ probe[b] = "pending"
    /\ \A r \in Reqs : pc[r] \in {"idle", "done"}
    /\ \E o \in ProbeOutcomes :
        /\ probe' = [probe EXCEPT ![b] = o]
        /\ healthy' = [healthy EXCEPT ![b] = check_backend(o)]
    /\ hpc' = hpc
    /\ UNCHANGED <<active, ok, fail, ROUND_ROBIN_INDEX, STICKY_COOKIE, reqVars, auxVars>>
    /\ ctl' = NoCtl

\* lines 33-36: the probe of backend b finishes and writes its flag at once
ProbeDone(b) ==
    /\ hpc = "gather"
    /\ probe[b] = "pending"
    /\ \E o \in ProbeOutcomes :
        /\ probe' = [probe EXCEPT ![b] = o]
        /\ healthy' = [healthy EXCEPT ![b] = check_backend(o)]
    /\ hpc' = hpc
    /\ UNCHANGED <<active, ok, fail, ROUND_ROBIN_INDEX, STICKY_COOKIE, reqVars, auxVars>>
    /\ ctl' = NoCtl

\* lines 28-29: gather returns when every probe has finished; the loop sleeps
EndCycle ==
    /\ hpc = "gather"
    /\ \A b \in Names : probe[b] # "pending"
    /\ hpc' = "sleep"
    /\ probe' = [b \in Names |-> "idle"]
    /\ UNCHANGED <<backendVars, ROUND_ROBIN_INDEX, STICKY_COOKIE, reqVars, auxVars>>
    /\ ctl' = NoCtl

Next ==
    \/ \E r \in Reqs : ProxySelect(r)
    \/ \E r \in Reqs : SendUpstream(r)
    \/ \E r \in Reqs : Relay(r)
    \/ \E r \in Reqs : Return(r)
    \/ \E r \in Reqs : BodyFails(r)
    \/ \E r \in Reqs : UpstreamFails(r)
    \/ StartCycle
    \/ \E b \in Names : ProbeDone(b)
    \/ EndCycle

Spec == Init /\ [][Next]_vars

\* ------------------------------------------------------------- /metrics, /health
\* all(...) where the code has any(...)
health_all(h) == IF \A b \in Names : h[b] THEN "ok" ELSE "degraded"

\* lines 115-117: the body of the /health response
health(h) == IF \E b \in Names : h[b] THEN "ok" ELSE "degraded"

\* lines 107-113: the body of the /metrics response (url and weight never change)
metrics(h, act, okc, failc) ==
    [i \in 1..Len(BACKENDS) |->
        [name |-> BACKENDS[i], healthy |-> h[BACKENDS[i]], active |-> act[BACKENDS[i]],
         ok |-> okc[BACKENDS[i]], fail |-> failc[BACKENDS[i]], weight |-> 1]]

ctlFrame == <<backendVars, ROUND_ROBIN_INDEX, STICKY_COOKIE, reqVars, healthVars, auxVars>>

\* GET /health: no await, one step
HealthEndpoint ==
    /\ ctl' = [path |-> "/health", body |-> health(healthy)]
    /\ UNCHANGED ctlFrame

\* GET /metrics: no await, one step
MetricsEndpoint ==
    /\ ctl' = [path |-> "/metrics", body |-> metrics(healthy, active, ok, fail)]
    /\ UNCHANGED ctlFrame

\* lines 119-125: the three routes and the health task together
NextCtl ==
    \/ \E r \in 1..MaxCtlReqs : ProxySelect(r)
    \/ \E r \in Reqs : SendUpstream(r)
    \/ \E r \in Reqs : Relay(r)
    \/ \E r \in Reqs : Return(r)
    \/ \E r \in Reqs : BodyFails(r)
    \/ \E r \in Reqs : UpstreamFails(r)
    \/ StartCycle
    \/ \E b \in Names : ProbeDone(b)
    \/ EndCycle
    \/ HealthEndpoint
    \/ MetricsEndpoint

SpecCtl == Init /\ [][NextCtl]_vars

\* What the event loop and the timeouts guarantee: a coroutine that can run
\* is run; an upstream call ends within REQUEST_TIMEOUT (line 85), with a
\* response or with an exception; a probe ends within REQUEST_TIMEOUT (line
\* 33); the sleep of line 29 ends.  request.read() (line 82) has no timeout:
\* nothing makes the client deliver its body.
Fairness ==
    /\ \A r \in Reqs : WF_vars(Relay(r) \/ UpstreamFails(r))
    /\ \A r \in Reqs : WF_vars(Return(r))
    /\ WF_vars(StartCycle)
    /\ \A b \in Names : WF_vars(ProbeDone(b))
    /\ WF_vars(EndCycle)

SpecLive == Init /\ [][NextCtl]_vars /\ Fairness

\* ------------------------------------------------------------- pick_backend_rr alone
\* Consecutive calls of pick_backend_rr over one set of health flags, from any
\* value the cursor may have reached.
InitRR ==
    /\ healthy \in [Names -> BOOLEAN]
    /\ ROUND_ROBIN_INDEX \in 0..MaxStartIndex
    /\ active = [b \in Names |-> 0]
    /\ ok = [b \in Names |-> 0]
    /\ fail = [b \in Names |-> 0]
    /\ STICKY_COOKIE = NONE
    /\ pc = [r \in Reqs |-> "idle"]
    /\ cookie_choice = [r \in Reqs |-> NONE]
    /\ backend = [r \in Reqs |-> NONE]
    /\ calls = [r \in Reqs |-> 0]
    /\ status = [r \in Reqs |-> 0]
    /\ set_cookie = [r \in Reqs |-> NONE]
    /\ hpc = "start"
    /\ probe = [b \in Names |-> "idle"]
    /\ picks = [b \in Names |-> 0]
    /\ ncalls = 0
    /\ hdr_pc = "idle"
    /\ in_headers = <<>>
    /\ fwd_headers = <<>>
    /\ up_headers = <<>>
    /\ out_headers = <<>>
    /\ ctl = NoCtl

\* lines 39-47: one call
CallRR ==
    /\ ncalls < MaxPicks
    /\ LET sel == pick_backend_rr(healthy, ROUND_ROBIN_INDEX) IN
        /\ ROUND_ROBIN_INDEX' = sel.idx
        /\ picks' = IF sel.b = NONE THEN picks ELSE Incr(picks, sel.b)
    /\ ncalls' = ncalls + 1
    /\ UNCHANGED <<backendVars, STICKY_COOKIE, reqVars, healthVars, hdrVars>>
    /\ ctl' = NoCtl

NextRR == CallRR

SpecRR == InitRR /\ [][NextRR]_vars

\* ------------------------------------------------------------- headers alone
\* One proxied exchange, followed through its headers only.  A header line is
\* a pair <<name, value>>; a value is the list of its comma-separated items.
ClientIP == "10.0.0.9"      \* peer[0]
Scheme == "http"            \* request.scheme
RequestNames == {"Connection", "transfer-encoding", "TE", "Accept",
                 "X-Forwarded-For", "x-forwarded-for", "X-Forwarded-Proto"}
ResponseNames == {"Connection", "KEEP-ALIVE", "Content-Type", "X-LB-Backend"}
HeaderValues == {<<"a">>, <<"b">>}

\* str.lower() on the header names above
Lower(k) ==
    CASE k = "Connection" -> "connection"
      [] k = "KEEP-ALIVE" -> "keep-alive"
      [] k = "TE" -> "te"
      [] k = "Accept" -> "accept"
      [] k = "Content-Type" -> "content-type"
      [] k = "X-Forwarded-For" -> "x-forwarded-for"
      [] k = "X-Forwarded-Proto" -> "x-forwarded-proto"
      [] k = "X-LB-Backend" -> "x-lb-backend"
      [] k = "X-LB-Duration-ms" -> "x-lb-duration-ms"
      [] OTHER -> k

HOP_BY_HOP == {"connection", "keep-alive", "proxy-authenticate", "proxy-authorization",
               "te", "trailers", "transfer-encoding", "upgrade"}

HeaderLists(names) ==
    UNION {[1..n -> names \X HeaderValues] : n \in 0..MaxHeaders}

\* k.lower() in HOP_BY_HOP
IsHopByHop(k) == Lower(k) \in HOP_BY_HOP

\* {k: v for k, v in items if k.lower() not in HOP_BY_HOP}: a dict keeps, for
\* each key, the value of the last line that has it
DictWithoutHop(items) ==
    LET keep == {i \in 1..Len(items) : ~IsHopByHop(items[i][1])}
        last(k) == CHOOSE i \in keep :
                      /\ items[i][1] = k
                      /\ \A j \in keep : items[j][1] = k => j <= i
    IN [k \in {items[i][1] : i \in keep} |-> items[last(k)][2]]

\* d.get(k)
DictGet(d, k) == IF k \in DOMAIN d THEN d[k] ELSE <<>>

\* d[k] = v
DictSet(d, k, v) == [x \in DOMAIN d \cup {k} |-> IF x = k THEN v ELSE d[x]]

\* lines 75-80: the headers sent upstream
ForwardHeaders(items) ==
    LET h0 == DictWithoutHop(items)
        xff == DictGet(h0, "X-Forwarded-For")
        h1 == DictSet(h0, "X-Forwarded-For",
                      IF xff # <<>> THEN xff \o <<ClientIP>> ELSE <<ClientIP>>)
    IN DictSet(h1, "X-Forwarded-Proto", <<Scheme>>)

\* [(k, v) for k, v in resp.headers.items() if k.lower() not in HOP_BY_HOP]
ListWithoutHop(items) == SelectSeq(items, LAMBDA kv : ~IsHopByHop(kv[1]))

\* out.headers[k] = v on a CIMultiDict: every line of that name, in any
\* capitalisation, is replaced by the one new line
MultiSet(items, k, v) ==
    Append(SelectSeq(items, LAMBDA kv : Lower(kv[1]) # Lower(k)), <<k, v>>)

\* lines 86, 91, 97 and 98: the headers of the relayed response
RelayHeaders(items, name) ==
    MultiSet(MultiSet(ListWithoutHop(items), "X-LB-Backend", <<name>>),
             "X-LB-Duration-ms", <<"0">>)

InitHdr ==
    /\ healthy = [b \in Names |-> TRUE]
    /\ ROUND_ROBIN_INDEX = 0
    /\ active = [b \in Names |-> 0]
    /\ ok = [b \in Names |-> 0]
    /\ fail = [b \in Names |-> 0]
    /\ STICKY_COOKIE = NONE
    /\ pc = [r \in Reqs |-> "idle"]
    /\ cookie_choice = [r \in Reqs |-> NONE]
    /\ backend = [r \in Reqs |-> NONE]
    /\ calls = [r \in Reqs |-> 0]
    /\ status = [r \in Reqs |-> 0]
    /\ set_cookie = [r \in Reqs |-> NONE]
    /\ hpc = "start"
    /\ probe = [b \in Names |-> "idle"]
    /\ picks = [b \in Names |-> 0]
    /\ ncalls = 0
    /\ hdr_pc = "request"
    /\ in_headers \in HeaderLists(RequestNames)
    /\ fwd_headers = <<>>
    /\ up_headers = <<>>
    /\ out_headers = <<>>
    /\ ctl = NoCtl

hdrFrame == <<backendVars, ROUND_ROBIN_INDEX, STICKY_COOKIE, reqVars, healthVars, rrVars>>

\* lines 75-85: the request goes out with the rewritten headers
HdrForward ==
    /\ hdr_pc = "request"
    /\ fwd_headers' = ForwardHeaders(in_headers)
    /\ hdr_pc' = "sent"
    /\ UNCHANGED <<in_headers, up_headers, out_headers, hdrFrame>>
    /\ ctl' = NoCtl

\* line 85 completes: the upstream's response headers arrive; the request has
\* been sent and its headers are of no further use
HdrUpstream ==
    /\ hdr_pc = "sent"
    /\ up_headers' \in HeaderLists(ResponseNames)
    /\ in_headers' = <<>>
    /\ fwd_headers' = <<>>
    /\ hdr_pc' = "responded"
    /\ UNCHANGED <<out_headers, hdrFrame>>
    /\ ctl' = NoCtl

\* lines 86-99: the response is relayed
HdrRelay ==
    /\ hdr_pc = "responded"
    /\ out_headers' = RelayHeaders(up_headers, BACKENDS[1])
    /\ hdr_pc' = "relayed"
    /\ UNCHANGED <<in_headers, fwd_headers, up_headers, hdrFrame>>
    /\ ctl' = NoCtl

NextHdr == HdrForward \/ HdrUpstream \/ HdrRelay

SpecHdr == InitHdr /\ [][NextHdr]_vars

\* ------------------------------------------------------------- claims
InFlight == {"read_body", "upstream", "closing"}
Sticky == STICKY_COOKIE # NONE

\* steps of request r, told by its program counter
Selects(r) == pc[r] = "idle" /\ pc'[r] # "idle"
Relays(r) == pc[r] = "upstream" /\ pc'[r] = "closing"
UpstreamFailed(r) == pc[r] = "upstream" /\ pc'[r] = "done"
BodyFailed(r) == pc[r] = "read_body" /\ pc'[r] = "done"

SameCounters(b) == active'[b] = active[b] /\ ok'[b] = ok[b] /\ fail'[b] = fail[b]

TypeOK ==
    /\ healthy \in [Names -> BOOLEAN]
    /\ \A b \in Names : active[b] \in Int /\ ok[b] \in Nat /\ fail[b] \in Nat
    /\ ROUND_ROBIN_INDEX \in 0..MaxReqs
    /\ pc \in [Reqs -> {"idle", "read_body", "upstream", "closing", "done"}]

\* C1: a request handled while every backend is unhealthy gets no backend,
\* in either mode and with or without a cookie; it is answered 503 at once,
\* no upstream request is sent for it and no counter of any backend changes.
C1_AllUnhealthy503 ==
    [][\A r \in Reqs :
         (Selects(r) /\ \A b \in Names : ~healthy[b])
         => /\ backend'[r] = NONE
            /\ status'[r] = 503
            /\ pc'[r] = "done"
            /\ calls'[r] = 0
            /\ \A b \in Names : SameCounters(b)]_vars

C1_Witness ==
    /\ \A b \in Names : ~healthy[b]
    /\ \E r \in Reqs : pc[r] = "done" /\ status[r] = 503 /\ calls[r] = 0
    /\ \A b \in Names : active[b] = 0 /\ ok[b] = 0 /\ fail[b] = 0

\* C2: the active count of a backend is never negative and is the number of
\* proxy invocations dispatched to it that have not finished, whatever way
\* they finish; it is 0 again once every request has completed.
C2_ActiveCount ==
    \A b \in Names :
        /\ active[b] >= 0
        /\ active[b] = Cardinality({r \in Reqs : pc[r] \in InFlight /\ backend[r] = b})

C2_Witness ==
    \E r1, r2 \in Reqs :
        /\ pc[r1] = "done" /\ status[r1] = 502 /\ backend[r1] = "s1"
        /\ pc[r2] = "closing" /\ backend[r2] = "s1"
        /\ active["s1"] = 1

\* C3: in sticky mode a request whose cookie names a backend that is healthy
\* when the request is handled is routed to that backend, whatever the
\* cursor is, and the cursor is left alone.
C3_StickyHit ==
    [][\A r \in Reqs : \A b \in Names :
         (Selects(r) /\ Sticky /\ healthy[b] /\ cookie_choice'[r] = b)
         => backend'[r] = b /\ ROUND_ROBIN_INDEX' = ROUND_ROBIN_INDEX]_vars

\* request 2 follows its cookie to s1 although the cursor, advanced by
\* request 1, points at s2
C3_Witness ==
    /\ Sticky
    /\ MaxReqs >= 2
    /\ backend[1] = "s1" /\ pc[1] = "read_body" /\ cookie_choice[1] = NONE
    /\ backend[2] = "s1" /\ pc[2] = "read_body" /\ cookie_choice[2] = "s1"
    /\ ROUND_ROBIN_INDEX = 1
    /\ \A b \in Names : healthy[b]

\* C4 as claimed: in sticky mode a request whose cookie names a backend that
\* is unhealthy while another one is healthy ends with a response that sets
\* the cookie to the backend round-robin chose for it.
C4_CookieOnEveryResponse ==
    [][\A r \in Reqs :
         (Sticky /\ pc[r] \in InFlight /\ pc'[r] = "done"
            /\ cookie_choice[r] \in Names /\ cookie_choice[r] # backend[r])
         => set_cookie'[r] = backend[r]]_vars

\* C4, amended: such a request is selected by round-robin among the healthy
\* backends, which advances the cursor by one; when the upstream returns a
\* complete response, the relayed response sets the cookie to the name of
\* the backend chosen; a 502 answer sets no cookie.
C4_FallbackCookie ==
    [][\A r \in Reqs :
         /\ \A b \in Names :
              (Selects(r) /\ Sticky /\ cookie_choice'[r] = b /\ ~healthy[b]
                 /\ \E o \in Names : healthy[o])
              => /\ backend'[r] =
                      HealthyList(healthy)[(ROUND_ROBIN_INDEX % Len(HealthyList(healthy))) + 1]
                 /\ ROUND_ROBIN_INDEX' = ROUND_ROBIN_INDEX + 1
         /\ (Relays(r) /\ Sticky /\ cookie_choice[r] # backend[r])
              => set_cookie'[r] = backend[r] /\ status'[r] \in UpstreamStatus
         /\ (pc[r] \in InFlight /\ status'[r] = 502) => set_cookie'[r] = NONE]_vars

C4_Witness ==
    /\ Sticky
    /\ ~healthy["s1"] /\ healthy["s2"]
    /\ \E r \in Reqs :
        /\ pc[r] = "closing" /\ cookie_choice[r] = "s1"
        /\ backend[r] = "s2" /\ set_cookie[r] = "s2"

\* C6: in round-robin mode a request handled while a backend is unhealthy is
\* never given that backend and leaves its three counters alone; with s1
\* healthy and s2 unhealthy it goes to s1, and every response relayed from s1
\* adds exactly one to s1's ok and nothing to s2's counters.
C6_UnhealthyNeverServes ==
    [][\A r \in Reqs :
         /\ \A b \in Names :
              (Selects(r) /\ ~Sticky /\ ~healthy[b])
              => backend'[r] # b /\ SameCounters(b)
         /\ (Selects(r) /\ ~Sticky /\ healthy["s1"] /\ ~healthy["s2"])
              => backend'[r] = "s1" /\ active'["s1"] = active["s1"] + 1
         /\ (Relays(r) /\ ~Sticky /\ backend[r] = "s1")
              => ok'["s1"] = ok["s1"] + 1 /\ SameCounters("s2")]_vars

\* every request of the run was served by s1 while s2 was unhealthy
C6_Witness ==
    /\ ~Sticky
    /\ healthy["s1"] /\ ~healthy["s2"]
    /\ \A r \in Reqs : pc[r] = "done" /\ status[r] = 200 /\ backend[r] = "s1"
    /\ ok["s1"] = MaxReqs /\ ROUND_ROBIN_INDEX = MaxReqs
    /\ active["s2"] = 0 /\ ok["s2"] = 0 /\ fail["s2"] = 0

\* C7: when the upstream call of a request fails, the chosen backend's fail
\* grows by one and ok does not change, the client gets 502, and the request
\* is over: no request ever causes more than one upstream call.
C7_FailureNoRetry ==
    [][\A r \in Reqs :
         /\ UpstreamFailed(r)
              => /\ fail' = [fail EXCEPT ![backend[r]] = @ + 1]
                 /\ ok' = ok
                 /\ status'[r] = 502
                 /\ calls'[r] = calls[r]
                 /\ backend'[r] = backend[r]
         /\ pc[r] = "done" => pc'[r] = "done" /\ calls'[r] = calls[r]
         /\ calls'[r] <= 1]_vars

C7_Witness ==
    \E r \in Reqs :
        /\ pc[r] = "done" /\ status[r] = 502 /\ calls[r] = 1
        /\ fail[backend[r]] = 1 /\ ok[backend[r]] = 0

\* C8: a complete upstream response, whatever its status, adds one to the ok
\* of the serving backend, leaves fail alone and is relayed with the status
\* the upstream gave; fail grows only in a step in which an upstream call
\* failed.
C8_OnlyForwardingFails ==
    [][/\ \A r \in Reqs :
            Relays(r) => /\ ok' = [ok EXCEPT ![backend[r]] = @ + 1]
                         /\ fail' = fail
                         /\ status'[r] \in UpstreamStatus
       /\ \A b \in Names :
            fail'[b] # fail[b] => \E r \in Reqs : UpstreamFailed(r) /\ backend[r] = b]_vars

\* C9: a probe that times out leaves its backend's flag false when it
\* completes, so before the cycle that issued it ends; the flag changes only
\* when a probe of that backend completes; and no selection returns a backend
\* whose flag is false.
C9_TimeoutExcludes ==
    [][/\ \A b \in Names :
            /\ (probe[b] = "pending" /\ probe'[b] = "timeout") => ~healthy'[b]
            /\ (hpc = "gather" /\ hpc' = "sleep" /\ probe[b] = "timeout") => ~healthy'[b]
            /\ healthy'[b] # healthy[b] => probe[b] = "pending" /\ probe'[b] \in ProbeOutcomes
       /\ \A r \in Reqs : \A b \in Names :
            (Selects(r) /\ ~healthy[b]) => backend'[r] # b]_vars

\* s1's probe timed out; the request handled next went to s2 although the
\* cursor pointed at s1
C9_Witness ==
    /\ probe["s1"] = "timeout" /\ ~healthy["s1"] /\ healthy["s2"]
    /\ pc[1] = "read_body" /\ backend[1] = "s2" /\ ROUND_ROBIN_INDEX = 1
    /\ MaxReqs >= 2 /\ pc[2] = "idle"

\* C5: after N consecutive calls of pick_backend_rr over a backend set with
\* at least one healthy member, every healthy backend has been selected at
\* least floor(N / healthyCount) times.
C5_FairShare ==
    \A b \in Names :
        healthy[b] => picks[b] >= ncalls \div Len(HealthyList(healthy))

\* five calls from an odd cursor: s1 gets exactly its floor(5/2) = 2
C5_Witness ==
    /\ \A b \in Names : healthy[b]
    /\ ncalls = 5 /\ picks["s1"] = 2 /\ picks["s2"] = 3

\* No header whose name is hop-by-hop in any capitalisation reaches the
\* upstream or the client.
NoHopByHopLeaves ==
    /\ hdr_pc = "sent" => \A k \in DOMAIN fwd_headers : Lower(k) \notin HOP_BY_HOP
    /\ hdr_pc = "relayed" =>
         \A i \in 1..Len(out_headers) : Lower(out_headers[i][1]) \notin HOP_BY_HOP

\* the names proxy() writes itself, which step 5 of the pipeline exempts
SetByProxy == {"x-forwarded-for", "x-forwarded-proto", "x-lb-backend", "x-lb-duration-ms"}

\* C10: no hop-by-hop header, in any capitalisation, is in the request sent
\* upstream or in the relayed response, and every other header line of the
\* request and of the upstream response is copied (the X-Forwarded-* and
\* X-LB-* names, which the proxy sets itself, aside).
C10_HopStrippedRestCopied ==
    /\ NoHopByHopLeaves
    /\ hdr_pc = "sent" =>
         \A i \in 1..Len(in_headers) :
            LET k == in_headers[i][1] IN
            (Lower(k) \notin HOP_BY_HOP /\ Lower(k) \notin SetByProxy)
            => k \in DOMAIN fwd_headers /\ fwd_headers[k] = in_headers[i][2]
    /\ hdr_pc = "relayed" =>
         \A i \in 1..Len(up_headers) :
            LET k == up_headers[i][1] IN
            (Lower(k) \notin HOP_BY_HOP /\ Lower(k) \notin SetByProxy)
            => \E j \in 1..Len(out_headers) : out_headers[j] = up_headers[i]

\* the hops of every inbound X-Forwarded-For line, in order
RECURSIVE InboundHops(_)
InboundHops(items) ==
    IF items = <<>> THEN <<>>
    ELSE (IF Lower(Head(items)[1]) = "x-forwarded-for" THEN Head(items)[2] ELSE <<>>)
         \o InboundHops(Tail(items))

\* C11: the request sent upstream carries exactly one X-Forwarded-For
\* header, whatever the capitalisation of the inbound name: the caller's IP
\* alone when the inbound request had none, and otherwise every inbound hop,
\* in order, followed by the caller's IP.
C11_OneForwardedFor ==
    hdr_pc = "sent" =>
        /\ Cardinality({k \in DOMAIN fwd_headers : Lower(k) = "x-forwarded-for"}) = 1
        /\ \A k \in DOMAIN fwd_headers :
              Lower(k) = "x-forwarded-for"
              => fwd_headers[k] = InboundHops(in_headers) \o <<ClientIP>>

\* C12: a step that answers /health or /metrics changes no backend field,
\* not the cursor and no request or probe, in any state of any interleaving;
\* /health says "ok" exactly when a backend is healthy and "degraded" exactly
\* when none is; /metrics reports each configured backend once, in order,
\* with its current fields.
C12_ControlReadOnly ==
    [][ctl'.path # NONE =>
         /\ UNCHANGED <<healthy, active, ok, fail, ROUND_ROBIN_INDEX>>
         /\ UNCHANGED <<reqVars, healthVars>>
         /\ ctl'.path = "/health" =>
              /\ (ctl'.body = "ok") = (\E b \in Names : healthy[b])
              /\ (ctl'.body = "degraded") = (\A b \in Names : ~healthy[b])
         /\ ctl'.path = "/metrics" =>
              /\ Len(ctl'.body) = Len(BACKENDS)
              /\ \A i \in 1..Len(BACKENDS) :
                    LET m == ctl'.body[i] IN
                    /\ m.name = BACKENDS[i]
                    /\ m.healthy = healthy[m.name] /\ m.active = active[m.name]
                    /\ m.ok = ok[m.name] /\ m.fail = fail[m.name]]_vars

\* /health answers "ok" with one backend down, a probe pending and a request
\* in flight
C12_Witness ==
    /\ ctl.path = "/health" /\ ctl.body = "ok"
    /\ ~healthy["s1"] /\ healthy["s2"]
    /\ probe["s1"] = "pending"
    /\ \E r \in Reqs : pc[r] = "upstream"

Terminal(r) ==
    \/ status[r] = 503 /\ backend[r] = NONE /\ calls[r] = 0          \* NoBackendAvailable
    \/ status[r] = 502 /\ backend[r] # NONE                          \* UpstreamFailure
    \/ status[r] \in UpstreamStatus /\ backend[r] # NONE /\ calls[r] = 1   \* Success

OneResponse ==
    /\ [](\A r \in Reqs : pc[r] = "done" => Terminal(r))
    /\ [](\A r \in Reqs : pc[r] \in {"idle", "read_body", "upstream"} => status[r] = 0)
    /\ [][\A r \in Reqs : status[r] # 0 => status'[r] = status[r]]_vars

\* C13 as claimed: every request that has been dispatched reaches a terminal
\* state.
C13_EveryRequestEnds ==
    \A r \in Reqs : (pc[r] \in InFlight) ~> (pc[r] = "done")

\* C13, amended: every request whose inbound body has been read reaches a
\* terminal state, the upstream call being bounded by its timeout; a request
\* is in exactly one of Success, UpstreamFailure and NoBackendAvailable when
\* it ends, with the one response it was given, and no selection or
\* forwarding failure ends it without a response.
C13_EndsOnceBodyRead ==
    /\ \A r \in Reqs : (pc[r] \in {"upstream", "closing"}) ~> (pc[r] = "done")
    /\ OneResponse

C13_Witness ==
    \E r \in Reqs : pc[r] = "done" /\ status[r] = 502 /\ calls[r] = 1 /\ hpc = "gather"

\* requests dispatched to b so far, finished or not
Dispatched(b) == Cardinality({r \in Reqs : backend[r] = b})

Quiescent == \A r \in Reqs : pc[r] \in {"idle", "done"}

\* C14: in every state another task can observe, no backend shows a request
\* that has left its active count without showing it in ok or fail:
\* ok + fail + active >= the requests dispatched to it so far.
C14_NoTornUpdate ==
    \A b \in Names : ok[b] + fail[b] + active[b] >= Dispatched(b)

\* a relayed request is in ok while still in active, next to a finished one
C14_Witness ==
    \E r1, r2 \in Reqs :
        /\ pc[r1] = "closing" /\ backend[r1] = "s1"
        /\ pc[r2] = "done" /\ backend[r2] = "s1" /\ status[r2] = 502
        /\ ok["s1"] + fail["s1"] + active["s1"] = Dispatched("s1") + 1

\* C15: ok and fail never decrease; they change only in the step that ends
\* the forwarding attempt of a request dispatched to that backend, and then
\* exactly one of them grows by exactly one; when no request is in flight,
\* ok + fail of a backend is the number of requests dispatched to it.
C15_OneOutcomePerAttempt ==
    [][\A b \in Names :
         /\ ok'[b] >= ok[b] /\ fail'[b] >= fail[b]
         /\ (ok'[b] # ok[b] \/ fail'[b] # fail[b])
              => /\ ok'[b] + fail'[b] = ok[b] + fail[b] + 1
                 /\ \E r \in Reqs : /\ backend[r] = b /\ calls[r] = 1
                                    /\ pc[r] = "upstream" /\ pc'[r] # "upstream"
         /\ Quiescent' => ok'[b] + fail'[b] = Dispatched(b)']_vars

\* the selection step of r is a sticky-affinity hit
StickyHit(r) ==
    Sticky /\ cookie_choice'[r] \in Names /\ healthy[cookie_choice'[r]]

\* C16: a selection that returns a backend by round-robin takes the backend
\* the cursor of the state before points at and leaves the cursor one
\* higher, in one step; a sticky hit, a selection with no healthy backend and
\* every other step of a request or of the health loop leave the cursor as
\* it is.
C16_CursorAdvance ==
    [][/\ \A r \in Reqs :
            Selects(r) =>
              IF backend'[r] = NONE \/ StickyHit(r)
              THEN ROUND_ROBIN_INDEX' = ROUND_ROBIN_INDEX
              ELSE /\ ROUND_ROBIN_INDEX' = ROUND_ROBIN_INDEX + 1
                   /\ backend'[r] = HealthyList(healthy)[
                          (ROUND_ROBIN_INDEX % Len(HealthyList(healthy))) + 1]
       /\ (\A r \in Reqs : ~Selects(r)) => ROUND_ROBIN_INDEX' = ROUND_ROBIN_INDEX]_vars

\* two requests in flight at once, both chosen by round-robin, each counted
C16_Witness ==
    /\ ~Sticky
    /\ ROUND_ROBIN_INDEX = 2
    /\ pc[1] \in InFlight /\ pc[2] \in InFlight
    /\ backend[1] = "s1" /\ backend[2] = "s2"
    /\ hpc = "gather"

\* C17: only a finishing probe changes a healthy flag; no step of a proxied
\* request does, the step that answers 502 included, and a backend whose
\* request just failed is still eligible.
C17_OnlyProbesChangeHealth ==
    [][/\ \A b \in Names :
            healthy'[b] # healthy[b] => probe[b] = "pending" /\ probe'[b] \in ProbeOutcomes
       /\ \A r \in Reqs : pc'[r] # pc[r] => healthy' = healthy
       /\ \A r \in Reqs :
            (UpstreamFailed(r) \/ BodyFailed(r)) =>
               /\ status'[r] = 502
               /\ healthy'[backend[r]] = healthy[backend[r]]]_vars

\* s1 has failed a request and is chosen again for the next one
C17_Witness ==
    /\ pc[1] = "done" /\ status[1] = 502 /\ backend[1] = "s1"
    /\ fail["s1"] = 1 /\ healthy["s1"]
    /\ pc[2] = "upstream" /\ backend[2] = "s1" /\ active["s1"] = 1

\* C18: the step in which the probe of b finishes leaves healthy[b] true
\* exactly when the outcome is a response with status 200, whatever the flag
\* was, and changes no other backend's flag, no counter and not the cursor.
C18_ProbeSetsFlag ==
    [][\A b \in Names :
         (probe[b] = "pending" /\ probe'[b] # "pending") =>
            /\ healthy'[b] = (probe'[b] = "200")
            /\ \A o \in Names \ {b} : healthy'[o] = healthy[o]
            /\ \A o \in Names : SameCounters(o)
            /\ ROUND_ROBIN_INDEX' = ROUND_ROBIN_INDEX]_vars

\* one probe of the cycle got a non-200 answer, the other a 200
C18_Witness ==
    /\ probe["s1"] = "non200" /\ ~healthy["s1"]
    /\ probe["s2"] = "200" /\ healthy["s2"]
    /\ \E r \in Reqs : pc[r] \in InFlight

ProbeFailures == {"non200", "connerr", "timeout"}

\* C19: whatever the probes of a cycle return, a failed probe leaves its
\* backend unhealthy and a new cycle with a probe of every backend is
\* started again and again.
C19_LoopNeverEnds ==
    /\ [](\A b \in Names : probe[b] \in ProbeFailures => ~healthy[b])
    /\ []<>(hpc = "gather" /\ \A b \in Names : probe[b] = "pending")

\* a cycle with a failed probe is over and the next one has started
C19_Witness ==
    /\ hpc = "gather"
    /\ \A b \in Names : probe[b] = "pending"
    /\ ~healthy["s1"] /\ healthy["s2"]

\* C20: a finished probe's result is in the flag while another probe of the
\* cycle is still pending, a selection made then does not choose a backend
\* whose probe has failed, and a pending probe can finish whatever the
\* proxied requests are doing.
C20_ProbesIndependent ==
    /\ [](\A b \in Names :
            /\ (hpc = "gather" /\ probe[b] \in ProbeOutcomes)
                  => healthy[b] = (probe[b] = "200")
            /\ (hpc = "gather" /\ probe[b] = "pending") => ENABLED ProbeDone(b))
    /\ [][\A r \in Reqs : \A b \in Names :
            (Selects(r) /\ probe[b] \in ProbeFailures) => backend'[r] # b]_vars

\* s1's probe has failed, s2's is still pending, and the request chosen
\* meanwhile went to s2 although the cursor pointed at s1
C20_Witness ==
    /\ hpc = "gather"
    /\ probe["s1"] = "connerr" /\ probe["s2"] = "pending"
    /\ ROUND_ROBIN_INDEX = 1
    /\ pc[1] = "read_body" /\ backend[1] = "s2"

====
